---- MODULE Spec2Model ----
(***************************************************************************)
(* Richmond Realtor Finder (src/richmond_realtor_finder.py).               *)
(*                                                                         *)
(* The program is a Flask application with four module-level globals       *)
(* (uploaded_emails, uploaded_count, log_lines, current_status) and three  *)
(* routes: / and /logs read the globals, /run executes run_scraper() in    *)
(* the request's thread.  A request thread is modelled by its position     *)
(* (pc) and the locals of run_scraper / add_to_brevo.  The collaborators   *)
(* (Google Places, the scraped sites, Brevo) are the environment: each     *)
(* call's outcome is chosen nondeterministically.                          *)
(***************************************************************************)
EXTENDS Naturals, Sequences, FiniteSets

VARIABLES
    uploaded_emails,   \* line 35: set of emails
    uploaded_count,    \* line 36
    log_lines,         \* line 37: list of log lines, oldest first
    current_status,    \* line 38
    pc,                \* per request thread: where it is in run_now/run_scraper
    qi,                \* per thread: index of `query` in SEARCH_QUERIES (line 137)
    websites,          \* per thread: the part of `websites` not yet iterated (line 139)
    info,              \* per thread: local `info` of run_scraper (line 140)
    email,             \* per thread: local `email` of add_to_brevo (line 103)
    run,               \* per thread: serial number of the run it executes (history)
    runs,              \* number of /run requests accepted so far (history)
    posts,             \* every POST issued to Brevo, in order (history)
    searched,          \* per thread: terms passed to query_google_places this run (history)
    returned,          \* per thread: number of links the searches of this run returned (history)
    scraped,           \* per thread: number of scrape_page calls of this run (history)
    appended,          \* every line ever passed to log(), in order (history)
    faults,            \* number of collaborator calls that failed so far (history)
    last,              \* the thread that took the last step of /run, 0 at first (scheduler)
    switches           \* number of times another thread than `last` went on (scheduler)

vars == <<uploaded_emails, uploaded_count, log_lines, current_status, pc, qi,
          websites, info, email, run, runs, posts, searched, returned, scraped,
          appended, faults, last, switches>>

globals == <<uploaded_emails, uploaded_count, log_lines, current_status>>

-----------------------------------------------------------------------------
(* Bounds of the model *)

\* /run requests accepted in one process lifetime
MaxRuns == 2
\* results one Places response carries
MaxResults == 2
\* links returned plus collaborator calls failed, in one process lifetime
MaxEvents == 3
\* changes of the running thread, in the specification of overlapping runs
MaxSwitches == 1
\* log() calls of the logging specification
MaxLogCalls == 203

-----------------------------------------------------------------------------
(* Program constants *)

\* line 44
LogCap == 200
\* line 73
LinkCap == 20

\* lines 21-28: the list of query terms (two terms stand for the six)
SEARCH_QUERIES == <<"q1", "q2">>

Threads == {1, 2}
Emails == {"e1", "e2"}
Websites == {"u1"}
\* every result of the model that has a link has a website
PlaceIds == {}
StatusCodes == {200, 201, 500}

NoEmail == "none"

\* the value None of `info` (line 96), and of a local not yet assigned
NoInfo == [ok |-> FALSE, email |-> <<>>, website |-> ""]

-----------------------------------------------------------------------------
(* Values *)

\* the argument of set_status: an f-string made of a label and a term or URL
Status(label, arg) == [label |-> label, arg |-> arg]

Idle == Status("Idle", "")
Completed == Status("Completed", "")

\* a log line: the fixed text of the message (kind, label) and what is
\* interpolated into it
Line(kind, arg, n) == [kind |-> kind, label |-> "", arg |-> arg, n |-> n]
StatusLine(s) == [kind |-> "status", label |-> s.label, arg |-> s.arg, n |-> 0]

ManualStartLine == Line("manual_start", "", 0)
StartedLine == Line("started", "", 0)
FinishedLine == Line("finished", "", 0)
PlacesFailLine == Line("places_failed", "", 0)
UploadedLine(e, n) == Line("uploaded", e, n)
BrevoResponseLine(code) == Line("brevo_response", "", code)
BrevoFailLine == Line("brevo_failed", "", 0)

\* one entry of the Places response: "" stands for an absent key
PlaceResults == [website : Websites \cup {""}, place_id : PlaceIds \cup {""}]

\* the response lists the environment may return
ResultLists == UNION {[1..n -> PlaceResults] : n \in 0..MaxResults}

\* list(set(EMAIL_PATTERN.findall(text))): distinct emails in any order
EmailLists ==
    {<<>>} \cup {<<e>> : e \in Emails}
           \cup {<<e, f>> : <<e, f>> \in {p \in Emails \X Emails : p[1] # p[2]}}

\* what requests.post yields: a response with a status code, or an exception
Outcomes == {[raised |-> FALSE, code |-> c] : c \in StatusCodes}
                \cup {[raised |-> TRUE, code |-> 0]}

-----------------------------------------------------------------------------
(* Pure parts of the handlers *)

LogNoEvict(lines, msg) == Append(lines, msg)

\* log(msg), lines 40-45: append, then drop the oldest line when over the cap
Log(lines, msg) ==
    LET l == Append(lines, msg)
    IN  IF Len(l) > LogCap THEN Tail(l) ELSE l

RECURSIVE LogAll(_, _)
LogAll(lines, msgs) ==
    IF msgs = <<>> THEN lines ELSE LogAll(Log(lines, Head(msgs)), Tail(msgs))

\* lines 67-72: the link of one Places result, if any
LinkOf(r) ==
    IF r.website # "" THEN <<r.website>>
    ELSE IF r.place_id # "" THEN <<"maps:" \o r.place_id>>
    ELSE <<>>

RECURSIVE Links(_)
Links(results) ==
    IF results = <<>> THEN <<>>
    ELSE LinkOf(Head(results)) \o Links(Tail(results))

\* line 73: links[:20]
FirstLinks(links) == SubSeq(links, 1, IF Len(links) < LinkCap THEN Len(links) ELSE LinkCap)

ScrapeFailLineNoUrl(url) == Line("scrape_failed", "", 0)

\* line 95
ScrapeFailLine(url) == Line("scrape_failed", url, 0)

IsDuplicateNever(e) == FALSE

\* line 104
IsDuplicate(e) == e \in uploaded_emails

MarkUploadedNot(set, e) == set

MarkUploadedOnly(set, e) == {e}

\* line 106
MarkUploaded(set, e) == set \cup {e}

IsSuccessOnly200(code) == code = 200

\* line 124
IsSuccess(code) == code \in {200, 201}

CountAtStartKept == uploaded_count

\* line 135
CountAtStart == 0

RestOfSitesNone(ws) == <<>>

\* line 139: the for loop moves to the next element of websites
RestOfSites(ws) == Tail(ws)

FinishStatusStale == current_status

\* line 144
FinishStatus == Completed

CanStartIfNoRun(t) == \A u \in Threads : pc[u] = "idle"

\* lines 191-193: run_now tests nothing before it starts the run
CanStart(t) == pc[t] = "idle"

-----------------------------------------------------------------------------
(* Initial state: the module-level assignments of lines 35-38; no request *)
(* is being served                                                        *)

Init ==
    /\ uploaded_emails = {}
    /\ uploaded_count = 0
    /\ log_lines = <<>>
    /\ current_status = Idle
    /\ pc = [t \in Threads |-> "idle"]
    /\ qi = [t \in Threads |-> 1]
    /\ websites = [t \in Threads |-> <<>>]
    /\ info = [t \in Threads |-> NoInfo]
    /\ email = [t \in Threads |-> NoEmail]
    /\ run = [t \in Threads |-> 0]
    /\ runs = 0
    /\ posts = <<>>
    /\ searched = [t \in Threads |-> <<>>]
    /\ returned = [t \in Threads |-> 0]
    /\ scraped = [t \in Threads |-> 0]
    /\ appended = <<>>
    /\ faults = 0
    /\ last = 0
    /\ switches = 0

\* the calls log(m) for each m of msgs, in order
Logged(msgs) ==
    /\ log_lines' = LogAll(log_lines, msgs)
    /\ appended' = appended \o msgs

\* links returned and calls failed so far: what the environment has produced
Events == returned[1] + returned[2] + faults

\* the end of one iteration of `for site in websites` (lines 139-143): the
\* sleep, then the next site, or the next query when the list is exhausted
NextSite(t) ==
    /\ websites' = [websites EXCEPT ![t] = RestOfSites(@)]
    /\ IF RestOfSites(websites[t]) = <<>>
       THEN /\ pc' = [pc EXCEPT ![t] = "query"]
            /\ qi' = [qi EXCEPT ![t] = @ + 1]
       ELSE /\ pc' = [pc EXCEPT ![t] = "site"]
            /\ UNCHANGED qi

-----------------------------------------------------------------------------
(* GET /run, lines 191-195 and the functions it calls *)

\* line 193: the request is accepted and logged
RunNow(t) ==
    /\ CanStart(t)
    /\ runs < MaxRuns
    /\ runs' = runs + 1
    /\ run' = [run EXCEPT ![t] = runs + 1]
    /\ pc' = [pc EXCEPT ![t] = "started"]
    /\ Logged(<<ManualStartLine>>)
    /\ UNCHANGED <<uploaded_emails, uploaded_count, current_status, qi, websites,
                   info, email, posts, searched, returned, scraped, faults>>

\* lines 135-136: run_scraper resets the counter and logs the start
StartRun(t) ==
    /\ pc[t] = "started"
    /\ uploaded_count' = CountAtStart
    /\ Logged(<<StartedLine>>)
    /\ pc' = [pc EXCEPT ![t] = "query"]
    /\ qi' = [qi EXCEPT ![t] = 1]
    /\ searched' = [searched EXCEPT ![t] = <<>>]
    /\ UNCHANGED <<uploaded_emails, current_status, websites, info, email, run,
                   runs, posts, returned, scraped, faults>>

\* lines 137-138 with query_google_places (lines 53-76) for the next term
Query(t) ==
    /\ pc[t] = "query"
    /\ qi[t] <= Len(SEARCH_QUERIES)
    /\ LET q == SEARCH_QUERIES[qi[t]]
           s == Status("Querying", q)
       IN  /\ current_status' = s
           /\ searched' = [searched EXCEPT ![t] = Append(@, q)]
           /\ \/ \* requests.get or resp.json() raises (lines 74-76)
                 /\ Events < MaxEvents
                 /\ faults' = faults + 1
                 /\ Logged(<<StatusLine(s), PlacesFailLine>>)
                 /\ websites' = [websites EXCEPT ![t] = <<>>]
                 /\ qi' = [qi EXCEPT ![t] = @ + 1]
                 /\ UNCHANGED <<pc, returned>>
              \/ \* a response with a list of results (lines 63-73)
                 \E results \in ResultLists :
                   LET links == FirstLinks(Links(results))
                   IN  /\ Events + Len(links) <= MaxEvents
                       /\ Logged(<<StatusLine(s)>>)
                       /\ websites' = [websites EXCEPT ![t] = links]
                       /\ returned' = [returned EXCEPT ![t] = @ + Len(links)]
                       /\ IF links = <<>>
                          THEN qi' = [qi EXCEPT ![t] = @ + 1] /\ UNCHANGED pc
                          ELSE pc' = [pc EXCEPT ![t] = "site"] /\ UNCHANGED qi
                       /\ UNCHANGED faults
    /\ UNCHANGED <<uploaded_emails, uploaded_count, info, email, run, runs,
                   posts, scraped>>

\* lines 140-141 with scrape_page (lines 78-96) for the next site
Scrape(t) ==
    /\ pc[t] = "site"
    /\ websites[t] # <<>>
    /\ LET site == Head(websites[t])
           s == Status("Scanning", site)
       IN  /\ current_status' = s
           /\ scraped' = [scraped EXCEPT ![t] = @ + 1]
           /\ \/ \* requests.get raises (lines 94-96): info is None
                 /\ Events < MaxEvents
                 /\ faults' = faults + 1
                 /\ Logged(<<StatusLine(s), ScrapeFailLine(site)>>)
                 /\ info' = [info EXCEPT ![t] = NoInfo]
                 /\ NextSite(t)
              \/ \* the page is fetched (lines 82-93)
                 \E emails \in EmailLists :
                   /\ Logged(<<StatusLine(s)>>)
                   /\ info' = [info EXCEPT ![t] =
                                 [ok |-> TRUE, email |-> emails, website |-> site]]
                   /\ IF emails # <<>>
                      THEN pc' = [pc EXCEPT ![t] = "check"]
                           /\ UNCHANGED <<qi, websites>>
                      ELSE NextSite(t)
                   /\ UNCHANGED faults
    /\ UNCHANGED <<uploaded_emails, uploaded_count, email, run, runs, posts,
                   searched, returned>>

\* add_to_brevo, lines 101-105: take the first email and test the dedup set
CheckDup(t) ==
    /\ pc[t] = "check"
    /\ IF info[t].email = <<>>
       THEN NextSite(t) /\ UNCHANGED email
       ELSE LET e == info[t].email[1]
            IN  /\ email' = [email EXCEPT ![t] = e]
                /\ IF IsDuplicate(e)
                   THEN NextSite(t)
                   ELSE pc' = [pc EXCEPT ![t] = "add"]
                        /\ UNCHANGED <<qi, websites>>
    /\ UNCHANGED <<globals, info, run, runs, posts, searched, returned,
                   scraped, appended, faults>>

\* add_to_brevo, line 106
AddEmail(t) ==
    /\ pc[t] = "add"
    /\ uploaded_emails' = MarkUploaded(uploaded_emails, email[t])
    /\ pc' = [pc EXCEPT ![t] = "post"]
    /\ UNCHANGED <<uploaded_count, log_lines, current_status, qi, websites, info,
                   email, run, runs, posts, searched, returned, scraped,
                   appended, faults>>

\* add_to_brevo, lines 107-130: the POST and what follows its outcome
Post(t) ==
    /\ pc[t] = "post"
    /\ \E o \in Outcomes :
         /\ posts' = Append(posts, [email |-> email[t], website |-> info[t].website,
                                    outcome |-> o, run |-> run[t]])
         /\ IF ~o.raised /\ IsSuccess(o.code)
            THEN /\ uploaded_count' = uploaded_count + 1
                 /\ Logged(<<UploadedLine(email[t], uploaded_count + 1)>>)
                 /\ UNCHANGED faults
            ELSE /\ Events < MaxEvents
                 /\ faults' = faults + 1
                 /\ Logged(<<IF o.raised THEN BrevoFailLine
                                         ELSE BrevoResponseLine(o.code)>>)
                 /\ UNCHANGED uploaded_count
    /\ NextSite(t)
    /\ UNCHANGED <<uploaded_emails, current_status, info, email, run, runs,
                   searched, returned, scraped>>

\* lines 144-145: the query list is exhausted
Finish(t) ==
    /\ pc[t] = "query"
    /\ qi[t] > Len(SEARCH_QUERIES)
    /\ current_status' = FinishStatus
    /\ Logged(<<StatusLine(FinishStatus), FinishedLine>>)
    /\ pc' = [pc EXCEPT ![t] = "respond"]
    /\ UNCHANGED <<uploaded_emails, uploaded_count, qi, websites, info, email,
                   run, runs, posts, searched, returned, scraped, faults>>

\* line 195: run_now returns its response
Respond(t) ==
    /\ pc[t] = "respond"
    /\ pc' = [pc EXCEPT ![t] = "idle"]
    /\ UNCHANGED <<globals, qi, websites, info, email, run, runs, posts,
                   searched, returned, scraped, appended, faults>>

-----------------------------------------------------------------------------
(* GET / (lines 187-189) and GET /logs (lines 197-199): the globals are read *)
(* into the response and nothing is written                                  *)

Home == UNCHANGED vars

GetLogs == UNCHANGED vars

-----------------------------------------------------------------------------
(* Specifications *)

\* one step of a run under way in thread t
RunStep(t) ==
    \/ StartRun(t)
    \/ Query(t)
    \/ Scrape(t)
    \/ CheckDup(t)
    \/ AddEmail(t)
    \/ Post(t)
    \/ Finish(t)
    \/ Respond(t)

\* the interpreter lets thread t go on: at most MaxSwitches times it is
\* another thread than the one that ran last
Sched(t) ==
    IF last \in {0, t}
    THEN last' = t /\ UNCHANGED switches
    ELSE /\ switches < MaxSwitches
         /\ switches' = switches + 1
         /\ last' = t

\* /run requests served one after the other by one thread, / and /logs
\* polled at any time
OneThread == UNCHANGED <<last, switches>>

Next ==
    \/ RunNow(1) /\ OneThread
    \/ StartRun(1) /\ OneThread
    \/ Query(1) /\ OneThread
    \/ Scrape(1) /\ OneThread
    \/ CheckDup(1) /\ OneThread
    \/ AddEmail(1) /\ OneThread
    \/ Post(1) /\ OneThread
    \/ Finish(1) /\ OneThread
    \/ Respond(1) /\ OneThread
    \/ Home
    \/ GetLogs

Spec == Init /\ [][Next]_vars

\* a run under way is never stopped for good: every call of a collaborator
\* returns or raises in finite time (the GETs time out, lines 63 and 82; the
\* POST of line 123 has no timeout, and its return is assumed), and the sleep
\* of line 143 ends
LiveSpec == Spec /\ WF_vars(RunStep(1) /\ OneThread)

\* /run requests served by two threads (Flask's threaded server)
ConcNext ==
    \/ \E t \in Threads : RunNow(t) /\ Sched(t)
    \/ \E t \in Threads : StartRun(t) /\ Sched(t)
    \/ \E t \in Threads : Query(t) /\ Sched(t)
    \/ \E t \in Threads : Scrape(t) /\ Sched(t)
    \/ \E t \in Threads : CheckDup(t) /\ Sched(t)
    \/ \E t \in Threads : AddEmail(t) /\ Sched(t)
    \/ \E t \in Threads : Post(t) /\ Sched(t)
    \/ \E t \in Threads : Finish(t) /\ Sched(t)
    \/ \E t \in Threads : Respond(t) /\ Sched(t)

SpecConc == Init /\ [][ConcNext]_vars

\* log() called again and again, the n-th call with the n-th message
LogCall ==
    /\ Len(appended) < MaxLogCalls
    /\ Logged(<<Line("message", "", Len(appended) + 1)>>)
    /\ UNCHANGED <<uploaded_emails, uploaded_count, current_status, pc, qi,
                   websites, info, email, run, runs, posts, searched, returned,
                   scraped, faults, last, switches>>

LogNext == LogCall

SpecLog == Init /\ [][LogNext]_vars

-----------------------------------------------------------------------------
(* Vocabulary of the properties *)

Last(seq) == seq[Len(seq)]

\* the last n elements of seq (all of it when it is shorter)
LastN(seq, n) ==
    IF Len(seq) <= n THEN seq ELSE SubSeq(seq, Len(seq) - n + 1, Len(seq))

\* the POST was answered with status 200 or 201
Confirmed(p) == ~p.outcome.raised /\ p.outcome.code \in {200, 201}

\* positions in posts of the POSTs carrying email e
PostsOf(e) == {i \in DOMAIN posts : posts[i].email = e}

\* positions of the confirmed POSTs of run r, and their emails
ConfirmedPostsIn(r) == {i \in DOMAIN posts : posts[i].run = r /\ Confirmed(posts[i])}
ConfirmedIn(r) == {posts[i].email : i \in ConfirmedPostsIn(r)}

\* thread 1 has just skipped a page whose first email is e: the last thing
\* logged is the scan of that page, it had emails, and no upload is under way
SkippedAsDuplicate(e) ==
    /\ pc[1] \in {"site", "query"}
    /\ log_lines # <<>>
    /\ Last(log_lines).kind = "status"
    /\ Last(log_lines).label = "Scanning"
    /\ info[1].ok
    /\ info[1].email # <<>>
    /\ info[1].email[1] = e

-----------------------------------------------------------------------------
(* C1 *)

\* C1: over any sequence of runs and pages, each email is carried by at most
\* one POST to Brevo; while add_to_brevo is past its dedup test for an email,
\* no POST has carried that email yet.
C1_AtMostOnePostPerEmail ==
    /\ \A e \in Emails : Cardinality(PostsOf(e)) <= 1
    /\ pc[1] \in {"add", "post"} => PostsOf(email[1]) = {}

\* an email posted in the first run is met again as the first email of a
\* two-email page in the second run, and skipped
C1_Witness ==
    \E e \in Emails :
      /\ SkippedAsDuplicate(e)
      /\ Len(info[1].email) = 2
      /\ run[1] = 2
      /\ \E i \in PostsOf(e) : posts[i].run = 1

-----------------------------------------------------------------------------
(* C2 *)

\* C2: when run_scraper has finished, uploaded_count is the number of
\* distinct emails whose POST was confirmed (200 or 201) during that run,
\* which is also the number of confirmed POSTs of that run.
C2_CountIsConfirmedUploads ==
    pc[1] = "respond" =>
        /\ uploaded_count = Cardinality(ConfirmedIn(run[1]))
        /\ uploaded_count = Cardinality(ConfirmedPostsIn(run[1]))

\* a second run ends with one confirmed upload, after a first run with a
\* confirmed upload of its own, three pages scanned and a duplicate skipped
C2_Witness ==
    /\ pc[1] = "respond"
    /\ run[1] = 2
    /\ uploaded_count = 1
    /\ ConfirmedIn(1) # {}
    /\ scraped[1] = 3
    /\ Len(posts) = 2

-----------------------------------------------------------------------------
(* C3 *)

\* the point of run_scraper just before the first term is processed
BeforeFirstQuery == pc[1] = "query" /\ qi[1] = 1 /\ searched[1] = <<>>

\* C3 as stated: before the first query term is processed the counter is
\* zero, the start event is logged and the status label is "Running".
C3_StatusRunningAtStart ==
    BeforeFirstQuery =>
        /\ uploaded_count = 0
        /\ Last(log_lines) = StartedLine
        /\ current_status = Status("Running", "")

\* C3 amended: before the first query term is processed the counter is zero
\* and the start event is the last line logged, after the line of the
\* request; the status label is still the one the start request found (Idle,
\* or the completed label of the previous run), and no label "Running" is
\* ever set.
C3_ResetAndStartLogged ==
    /\ BeforeFirstQuery =>
        /\ uploaded_count = 0
        /\ LastN(log_lines, 2) = <<ManualStartLine, StartedLine>>
        /\ current_status \in {Idle, Completed}
    /\ current_status.label # "Running"

\* the second run is about to process its first term; the first run had
\* counted an upload
C3_Witness ==
    /\ BeforeFirstQuery
    /\ run[1] = 2
    /\ ConfirmedIn(1) # {}
    /\ current_status = Completed

-----------------------------------------------------------------------------
(* C4 *)

\* C4: every started run reaches the end of run_scraper, whatever the calls
\* of the collaborators yield; when the handler is about to return its
\* response, the query list is exhausted, the status is the completed label
\* and the finish event is the last line logged.
C4_RunCompletes ==
    /\ (pc[1] = "started") ~> (pc[1] = "respond")
    /\ [](pc[1] = "respond" =>
            /\ qi[1] = Len(SEARCH_QUERIES) + 1
            /\ current_status = Completed
            /\ LastN(log_lines, 2) = <<StatusLine(Completed), FinishedLine>>)

\* a run is complete although a collaborator call failed during it, and it
\* has scanned pages and issued a POST
C4_Witness ==
    /\ pc[1] = "respond"
    /\ faults > 0
    /\ scraped[1] > 1
    /\ posts # <<>>

-----------------------------------------------------------------------------
(* C5 *)

\* C5: the terms searched in a run are a prefix of the query list, in list
\* order, one search per term; every link the searches of the run returned
\* has been scraped when the next search is issued or the run ends; at the
\* end of the run the terms searched are exactly the query list.
C5_OneSearchPerTermInOrder ==
    /\ pc[1] \in {"query", "site", "check", "add", "post", "respond"} =>
         /\ Len(searched[1]) <= Len(SEARCH_QUERIES)
         /\ searched[1] = SubSeq(SEARCH_QUERIES, 1, Len(searched[1]))
    /\ pc[1] = "query" => Len(searched[1]) = qi[1] - 1
    /\ pc[1] \in {"query", "respond"} => scraped[1] = returned[1]
    /\ pc[1] = "respond" => searched[1] = SEARCH_QUERIES

\* a run has ended in which one search failed and another returned two links
C5_Witness ==
    /\ pc[1] = "respond"
    /\ run[1] = 1
    /\ returned[1] = 2
    /\ \E i \in DOMAIN log_lines : log_lines[i] = PlacesFailLine

-----------------------------------------------------------------------------
(* C6 *)

\* a step in which a POST is issued and not confirmed
UploadFails ==
    /\ Len(posts') = Len(posts) + 1
    /\ ~Confirmed(Last(posts'))

\* C6: a failed upload (status other than 200/201, or an exception) logs one
\* failure line, leaves the counter as it was and goes on to the next page
\* without a second POST; the email is in the dedup set, and it is never
\* carried by another POST.
C6_FailedUploadNotRetried ==
    /\ [][UploadFails =>
            /\ uploaded_count' = uploaded_count
            /\ Len(appended') = Len(appended) + 1
            /\ Last(log_lines') =
                 (IF Last(posts').outcome.raised THEN BrevoFailLine
                  ELSE BrevoResponseLine(Last(posts').outcome.code))
            /\ Last(posts').email \in uploaded_emails'
            /\ pc'[1] \in {"site", "query"}]_vars
    /\ [](\A i \in DOMAIN posts :
            ~Confirmed(posts[i]) =>
               /\ posts[i].email \in uploaded_emails
               /\ PostsOf(posts[i].email) = {i})

\* the upload of an email failed, and a later page with that email as its
\* first one has been skipped: the counter is still zero
C6_Witness ==
    \E e \in Emails :
      /\ SkippedAsDuplicate(e)
      /\ \E i \in PostsOf(e) : ~Confirmed(posts[i])
      /\ Len(posts) = 1
      /\ uploaded_count = 0

-----------------------------------------------------------------------------
(* C7 *)

\* a step in which scrape_page is called and returns None
ScrapeFails ==
    /\ pc[1] = "site"
    /\ scraped'[1] = scraped[1] + 1
    /\ ~info'[1].ok

\* C7: when the fetch of a candidate URL fails, no POST is made, the dedup
\* set and the counter are unchanged, the line logged last is the failure
\* line naming that URL (after the line of the scan), and the run goes on
\* to the next URL of the list, or to the next term after the last URL.
C7_ScrapeFailureSkipsUrl ==
    [][ScrapeFails =>
          /\ posts' = posts
          /\ uploaded_emails' = uploaded_emails
          /\ uploaded_count' = uploaded_count
          /\ Len(appended') = Len(appended) + 2
          /\ LastN(appended', 2) = LastN(log_lines', 2)
          /\ LastN(log_lines', 2)[1] = StatusLine(Status("Scanning", Head(websites[1])))
          /\ Last(log_lines').kind = "scrape_failed"
          /\ Last(log_lines').arg = Head(websites[1])
          /\ websites'[1] = Tail(websites[1])
          /\ pc'[1] = (IF Tail(websites[1]) = <<>> THEN "query" ELSE "site")
          /\ qi'[1] = (IF Tail(websites[1]) = <<>> THEN qi[1] + 1 ELSE qi[1])]_vars

\* the fetch of a URL has just failed in the second run, and the run is at
\* the next URL of the same list
C7_Witness ==
    /\ pc[1] = "site"
    /\ websites[1] # <<>>
    /\ ~info[1].ok
    /\ Last(log_lines).kind = "scrape_failed"
    /\ Last(log_lines).arg = "u1"
    /\ run[1] = 2

-----------------------------------------------------------------------------
(* C8 *)

\* C8: after any number of log calls the buffer holds at most 200 lines, and
\* they are the lines appended last, in the order of the calls.
C8_LogHoldsLastLines ==
    /\ Len(log_lines) <= LogCap
    /\ log_lines = LastN(appended, LogCap)

\* more than 200 lines have been logged and the buffer is full
C8_Witness ==
    /\ Len(appended) > LogCap + 1
    /\ Len(log_lines) = LogCap
    /\ Head(log_lines) # Head(appended)

-----------------------------------------------------------------------------
(* C9 *)

\* C9: the uploaded-email set is empty at first, no step removes an email
\* from it, and it holds exactly the emails a POST has carried or is about
\* to carry (add_to_brevo between line 106 and the POST).
C9_EmailSetOnlyGrows ==
    /\ uploaded_emails = {}
    /\ [][uploaded_emails \subseteq uploaded_emails']_vars
    /\ [](uploaded_emails =
            {posts[i].email : i \in DOMAIN posts}
               \cup {email[t] : t \in {u \in Threads : pc[u] = "post"}})

\* the second run has ended; the set holds two emails, one of a failed
\* upload of the first run
C9_Witness ==
    /\ pc[1] = "respond"
    /\ run[1] = 2
    /\ Cardinality(uploaded_emails) = 2
    /\ \E i \in DOMAIN posts : posts[i].run = 1 /\ ~Confirmed(posts[i])

-----------------------------------------------------------------------------
(* C10 *)

\* C10: /run has no run-in-progress guard: whenever a thread is free and the
\* request budget is not used up, the start request is accepted, whatever
\* the other thread is doing; and the start of a run sets the shared counter
\* to zero whatever the other run has counted.
C10_StartNeverRefused ==
    /\ \A t \in Threads : pc[t] = "idle" /\ runs < MaxRuns => ENABLED RunNow(t)
    /\ \A t \in Threads :
         pc[t] = "query" /\ qi[t] = 1 /\ searched[t] = <<>> /\ last = t
            => uploaded_count = 0

\* run 1 has counted a confirmed upload, run 2 has started meanwhile and set
\* the counter back to zero, and both runs are past the membership test for
\* the same email before either has added it
C10_Witness ==
    /\ run[1] = 1
    /\ run[2] = 2
    /\ ConfirmedIn(1) # {}
    /\ uploaded_count = 0
    /\ pc[1] = "add"
    /\ pc[2] = "add"
    /\ email[1] = email[2]

====
